---- MODULE Spec2Model ----
(***************************************************************************)
(* A model of onnx_ir/_convenience/__init__.py: the graph rewiring         *)
(* operations (replace_all_uses_with, replace_nodes_and_values), the name  *)
(* projection (create_value_mapping), the constant resolver                *)
(* (get_const_tensor) and the attribute binder (_infer_attribute_type,     *)
(* convert_attribute).                                                     *)
(*                                                                         *)
(* The storage layer (_core.Value, _core.Node, _core.Graph) is not part of *)
(* the file; its operations (Node.replace_input_with, Graph.insert_after,  *)
(* Graph.remove) are modelled from their description in spec.md.           *)
(***************************************************************************)
EXTENDS Integers, Sequences, FiniteSets, TLC

VARIABLES
    inputs,     \* node -> sequence of input Values (None for an empty slot)
    uses,       \* value -> set of <<consumer node, slot>> pairs
    nodes,      \* the container's node sequence
    outputs,    \* the container's output list
    meta,       \* value -> [type, shape, const_value, name]
    arg,        \* the arguments of the last call ([op |-> "none"] before any)
    result,     \* the outcome of the last call
    pre         \* the rewiring state the last call started from

vars == <<inputs, uses, nodes, outputs, meta, arg, result, pre>>

None == "None"

\* The longest values / replacements / old_values / new_values sequence drawn.
MaxLen == 2

SeqsUpTo(S, n) == UNION {[1..k -> S] : k \in 0..n}

Range(s) == {s[i] : i \in DOMAIN s}

Min(a, b) == IF a <= b THEN a ELSE b

(***************************************************************************)
(* The universe of the rewiring model: the scenario of the docstring of    *)
(* replace_all_uses_with, A -> {B, C} with a new node D, and one graph     *)
(* input x.  Every node owns one output.                                   *)
(***************************************************************************)
Nodes == {"A", "B", "C", "D"}

NodeOutputs == [A |-> <<"a">>, B |-> <<"b">>, C |-> <<"c">>, D |-> <<"d">>]

Values == {"a", "b", "c", "d", "x"}

\* The values the calls are given as values / replacements.
ArgValues == {"a", "d", "x"}

NoCall == [op |-> "none"]

Pending == "pending"

\* The rewiring state as one record, the form the operators work on.
State == [inputs |-> inputs, uses |-> uses, nodes |-> nodes,
          outputs |-> outputs, meta |-> meta]

\* Value.uses() as the storage layer keeps it for a given inputs map.
UsesOf(ins, v) ==
    UNION {{<<n, i>> : i \in {j \in DOMAIN ins[n] : ins[n][j] = v}} : n \in DOMAIN ins}

(***************************************************************************)
(* Node.replace_input_with(index, value): sets the input at the slot and   *)
(* keeps both use sets (drops the use from the old value, adds it to the   *)
(* new one).                                                               *)
(***************************************************************************)
replace_input_with(st, node, index, value) ==
    LET old == st.inputs[node][index]
        ins == [st.inputs EXCEPT ![node][index] = value]
        u1 == IF old # None
              THEN [st.uses EXCEPT ![old] = @ \ {<<node, index>>}]
              ELSE st.uses
        u2 == IF value # None
              THEN [u1 EXCEPT ![value] = @ \cup {<<node, index>>}]
              ELSE u1
    IN [st EXCEPT !.inputs = ins, !.uses = u2]

(***************************************************************************)
(* for user_node, index in tuple(value.uses()):                            *)
(*     user_node.replace_input_with(index, replacement)                    *)
(* snapshot is the tuple taken before the loop.                            *)
(***************************************************************************)
RECURSIVE RedirectLoop(_, _, _)
RedirectLoop(st, snapshot, replacement) ==
    IF snapshot = {} THEN st
    ELSE LET u == CHOOSE u \in snapshot : TRUE
         IN RedirectLoop(replace_input_with(st, u[1], u[2], replacement),
                         snapshot \ {u}, replacement)

\* The loop leaving after its first use: the uses collection changed under it.
RedirectUses_first_only(st, value, replacement) ==
    LET snapshot == st.uses[value]
    IN IF snapshot = {} THEN st
       ELSE LET u == CHOOSE u \in snapshot : TRUE
            IN replace_input_with(st, u[1], u[2], replacement)

\* The consumer's slot written without the storage layer's bookkeeping.
RedirectUses_direct(st, value, replacement) ==
    [st EXCEPT !.inputs =
        [n \in DOMAIN st.inputs |->
            [i \in DOMAIN st.inputs[n] |->
                IF <<n, i>> \in st.uses[value] THEN replacement
                ELSE st.inputs[n][i]]]]

RedirectUses(st, value, replacement) ==
    RedirectLoop(st, st.uses[value], replacement)

\* for value, replacement in zip(values, replacements): from pair i on.
RECURSIVE RedirectPairs(_, _, _, _)
RedirectPairs(st, values, replacements, i) ==
    IF i > Min(Len(values), Len(replacements)) THEN st
    ELSE RedirectPairs(RedirectUses(st, values[i], replacements[i]),
                       values, replacements, i + 1)

\* if not isinstance(values, Sequence): values = (values,)
AsSequence(a) == IF a.kind = "value" THEN <<a.v>> ELSE a.s

\* The pairs zipped with no comparison of the lengths.
replace_all_uses_with_nocheck(st, values, replacements) ==
    [st |-> RedirectPairs(st, AsSequence(values), AsSequence(replacements), 1),
     err |-> "ok"]

replace_all_uses_with(st, values, replacements) ==
    LET vs == AsSequence(values)
        rs == AsSequence(replacements)
    IN IF Len(vs) # Len(rs)
       THEN [st |-> st, err |-> "ValueError"]
       ELSE [st |-> RedirectPairs(st, vs, rs, 1), err |-> "ok"]

(***************************************************************************)
(* replace_nodes_and_values, step 1:                                       *)
(* for old_value, new_value in zip(old_values, new_values): copy type,     *)
(* shape, const_value and name of old_value onto new_value.                *)
(***************************************************************************)
RECURSIVE CopyMeta(_, _, _, _)
CopyMeta(m, old_values, new_values, i) ==
    IF i > Min(Len(old_values), Len(new_values)) THEN m
    ELSE LET o == old_values[i]
             n == new_values[i]
             m1 == [m EXCEPT ![n].type = m[o].type]
             m2 == [m1 EXCEPT ![n].shape = m1[o].shape]
             m3 == [m2 EXCEPT ![n].const_value = m2[o].const_value]
             m4 == [m3 EXCEPT ![n].name = m3[o].name]
         IN CopyMeta(m4, old_values, new_values, i + 1)

\* dict(zip(keys, vals)) built the other way round: an earlier pair wins.
RECURSIVE DictZipFirst(_, _)
DictZipFirst(keys, vals) ==
    IF Len(keys) = 0 \/ Len(vals) = 0 THEN <<>>
    ELSE LET rest == DictZipFirst(Tail(keys), Tail(vals))
         IN [k \in DOMAIN rest \cup {Head(keys)} |->
                IF k = Head(keys) THEN Head(vals) ELSE rest[k]]

\* dict(zip(keys, vals)): pairs inserted in order, a later pair overwrites.
RECURSIVE DictZipFrom(_, _, _, _)
DictZipFrom(d, keys, vals, i) ==
    IF i > Min(Len(keys), Len(vals)) THEN d
    ELSE DictZipFrom([k \in DOMAIN d \cup {keys[i]} |->
                         IF k = keys[i] THEN vals[i] ELSE d[k]],
                     keys, vals, i + 1)

DictZip(keys, vals) == DictZipFrom(<<>>, keys, vals, 1)

\* for idx, output in enumerate(outputs): if output in mapping: outputs[idx] = mapping[output]
ReplaceOutputs(outs, mapping) ==
    [idx \in DOMAIN outs |->
        IF outs[idx] \in DOMAIN mapping THEN mapping[outs[idx]] ELSE outs[idx]]

IndexOf(s, e) == CHOOSE i \in DOMAIN s : s[i] = e

(***************************************************************************)
(* Graph.insert_after(node, new_nodes): new_nodes, in their order, right   *)
(* after node; an error when node is not in the container.                 *)
(***************************************************************************)
insert_after(ns, node, new_nodes) ==
    IF node \notin Range(ns) THEN [nodes |-> ns, err |-> "ValueError"]
    ELSE LET k == IndexOf(ns, node)
         IN [nodes |-> SubSeq(ns, 1, k) \o new_nodes \o SubSeq(ns, k + 1, Len(ns)),
             err |-> "ok"]

HasUsedOutput(st, n) == \E j \in DOMAIN NodeOutputs[n] : st.uses[NodeOutputs[n][j]] # {}

(***************************************************************************)
(* Graph.remove(nodes, safe): with safe, an error and no change when a     *)
(* node to remove has an output with a non-empty use set.                  *)
(***************************************************************************)
remove(st, old_nodes, safe) ==
    IF safe /\ \E i \in DOMAIN old_nodes : HasUsedOutput(st, old_nodes[i])
    THEN [nodes |-> st.nodes, err |-> "ValueError"]
    ELSE [nodes |-> SelectSeq(st.nodes, LAMBDA n : n \notin Range(old_nodes)),
          err |-> "ok"]

SeqArg(s) == [kind |-> "seq", s |-> s]

\* Steps 2 to 5 from the state s1 the metadata copy left, r the use redirection's outcome.
SpliceFrom(s1, r, safe, insertion_point, old_nodes, new_nodes, old_values, new_values) ==
    IF r.err # "ok" THEN [st |-> s1, outcome |-> "length_mismatch"]
    ELSE LET s3 == [r.st EXCEPT !.outputs =
                        ReplaceOutputs(r.st.outputs, DictZip(old_values, new_values))]
             ins == insert_after(s3.nodes, insertion_point, new_nodes)
         IN IF ins.err # "ok" THEN [st |-> s3, outcome |-> "bad_insertion_point"]
            ELSE LET s4 == [s3 EXCEPT !.nodes = ins.nodes]
                     rem == remove(s4, old_nodes, safe)
                 IN IF rem.err # "ok" THEN [st |-> s4, outcome |-> "unsafe_remove"]
                    ELSE [st |-> [s4 EXCEPT !.nodes = rem.nodes], outcome |-> "ok"]

\* graph_or_function.remove(old_nodes) with no safe=True.
replace_nodes_and_values_unsafe(st, insertion_point, old_nodes, new_nodes, old_values, new_values) ==
    LET s1 == [st EXCEPT !.meta = CopyMeta(st.meta, old_values, new_values, 1)]
    IN SpliceFrom(s1, replace_all_uses_with(s1, SeqArg(old_values), SeqArg(new_values)),
                  FALSE, insertion_point, old_nodes, new_nodes, old_values, new_values)

\* The splice with the users of the old values left where they are.
replace_nodes_and_values_norewire(st, insertion_point, old_nodes, new_nodes, old_values, new_values) ==
    LET s1 == [st EXCEPT !.meta = CopyMeta(st.meta, old_values, new_values, 1)]
    IN SpliceFrom(s1, [st |-> s1, err |-> IF Len(old_values) = Len(new_values)
                                          THEN "ok" ELSE "ValueError"],
                  TRUE, insertion_point, old_nodes, new_nodes, old_values, new_values)

replace_nodes_and_values(st, insertion_point, old_nodes, new_nodes, old_values, new_values) ==
    LET s1 == [st EXCEPT !.meta = CopyMeta(st.meta, old_values, new_values, 1)]
    IN SpliceFrom(s1, replace_all_uses_with(s1, SeqArg(old_values), SeqArg(new_values)),
                  TRUE, insertion_point, old_nodes, new_nodes, old_values, new_values)

(***************************************************************************)
(* The calls of the rewiring specifications.                               *)
(***************************************************************************)
ValueLists == SeqsUpTo(ArgValues, MaxLen)

ValueArgs == {[kind |-> "value", v |-> v] : v \in ArgValues}
                \cup {SeqArg(s) : s \in ValueLists}

OldNodeLists == {<<>>, <<"A">>, <<"B", "A">>}

NewNodeLists == {<<>>, <<"D">>}

InsertionPoints == {"B", "D"}

SetState(st) ==
    /\ inputs' = st.inputs
    /\ uses' = st.uses
    /\ nodes' = st.nodes
    /\ outputs' = st.outputs
    /\ meta' = st.meta

\* One call of replace_all_uses_with(values, replacements).
ReplaceAllUsesWith(args, record) ==
    \E values \in args, replacements \in args :
        LET r == replace_all_uses_with(State, values, replacements)
        IN /\ SetState(r.st)
           /\ IF record
              THEN /\ arg' = [op |-> "replace_all_uses_with",
                              values |-> values, replacements |-> replacements]
                   /\ result' = r.err
                   /\ pre' = State
              ELSE UNCHANGED <<arg, result, pre>>

\* One call of replace_nodes_and_values(container, insertion_point, ...).
\* The old nodes are nodes of the container, the new nodes are not yet.
ReplaceNodesAndValues(lists, record) ==
    \E insertion_point \in InsertionPoints, old_nodes \in OldNodeLists,
       new_nodes \in NewNodeLists, old_values \in lists, new_values \in lists :
        /\ Range(old_nodes) \subseteq Range(nodes)
        /\ Range(new_nodes) \cap Range(nodes) = {}
        /\ LET r == replace_nodes_and_values(State, insertion_point, old_nodes,
                                             new_nodes, old_values, new_values)
           IN /\ SetState(r.st)
              /\ IF record
                 THEN /\ arg' = [op |-> "replace_nodes_and_values",
                                 insertion_point |-> insertion_point,
                                 old_nodes |-> old_nodes, new_nodes |-> new_nodes,
                                 old_values |-> old_values, new_values |-> new_values]
                      /\ result' = r.outcome
                      /\ pre' = State
                 ELSE UNCHANGED <<arg, result, pre>>

NoConst == <<"const", None>>

InitMeta ==
    [v \in Values |->
        [type |-> <<"type", v>>, shape |-> <<"shape", v>>,
         const_value |-> IF v = "x" THEN <<"const", v>> ELSE NoConst,
         name |-> v]]

\* The graphs a call starts from: A -> {B, C} and its variations, D not inserted.
InitGraphs ==
    /\ inputs \in {[A |-> <<"x">>, B |-> b, C |-> c, D |-> d] :
                        b \in {<<"a", "a">>, <<"a", "x">>},
                        c \in {<<"a">>, <<"b">>},
                        d \in {<<"x">>, <<"a">>}}
    /\ uses = [v \in Values |-> UsesOf(inputs, v)]
    /\ nodes = <<"A", "B", "C">>
    /\ outputs \in {<<"c">>, <<"a", "c">>}

\* A Value as created: no type, no shape, no constant, no name.
FreshMeta ==
    [type |-> <<"type", None>>, shape |-> <<"shape", None>>,
     const_value |-> NoConst, name |-> None]

\* Spec: one recorded call from each of the initial graphs.
Init ==
    /\ InitGraphs
    /\ meta = InitMeta
    /\ arg = NoCall
    /\ result = Pending
    /\ pre = NoCall

RecordedReplaceAllUsesWith == arg.op = "none" /\ ReplaceAllUsesWith(ValueArgs, TRUE)

RecordedReplaceNodesAndValues == arg.op = "none" /\ ReplaceNodesAndValues(ValueLists, TRUE)

Next == RecordedReplaceAllUsesWith \/ RecordedReplaceNodesAndValues

Spec == Init /\ [][Next]_vars

(***************************************************************************)
(* SpecSeq: any sequence of calls, from the docstring's graph; no call is  *)
(* recorded.  A sequence of calls with one pair each does what one call    *)
(* with several pairs does, so the lists drawn are one element shorter.    *)
(***************************************************************************)
ShortLists == SeqsUpTo(ArgValues, MaxLen - 1)

ShortArgs == {[kind |-> "value", v |-> v] : v \in ArgValues}
                \cup {SeqArg(s) : s \in ShortLists}

InitSeq ==
    /\ inputs = [A |-> <<"x">>, B |-> <<"a", "a">>, C |-> <<"a">>, D |-> <<"x">>]
    /\ uses = [v \in Values |-> UsesOf(inputs, v)]
    /\ nodes = <<"A", "B", "C">>
    /\ outputs = <<"a", "c">>
    /\ meta = [v \in Values |-> IF v = "a" THEN InitMeta[v] ELSE FreshMeta]
    /\ arg = NoCall
    /\ result = Pending
    /\ pre = NoCall

AnyReplaceAllUsesWith == ReplaceAllUsesWith(ShortArgs, FALSE)

AnyReplaceNodesAndValues == ReplaceNodesAndValues(ShortLists, FALSE)

NextSeq == AnyReplaceAllUsesWith \/ AnyReplaceNodesAndValues

SpecSeq == InitSeq /\ [][NextSeq]_vars

(***************************************************************************)
(* The claims about the rewiring operations.                               *)
(***************************************************************************)
IsRAUW == arg.op = "replace_all_uses_with"

IsRNV == arg.op = "replace_nodes_and_values"

TotalUses(u) == Cardinality(UNION {{<<v, e>> : e \in u[v]} : v \in DOMAIN u})

\* Every use values[i] had before the call reads replacements[i]; values[i] has no use.
Redirected(vs, rs) ==
    \A i \in DOMAIN vs :
        /\ \A u \in pre.uses[vs[i]] : inputs[u[1]][u[2]] = rs[i]
        /\ uses[vs[i]] = {}

\* No replacement is one of the values, and a value listed twice has one replacement.
NoAliasing(vs, rs) ==
    /\ Range(rs) \cap Range(vs) = {}
    /\ \A i, j \in DOMAIN vs : vs[i] = vs[j] => rs[i] = rs[j]

\* C1 as stated: for all equal-length values and replacements, after
\* replace_all_uses_with every former use of values[i] reads replacements[i] at
\* its slot and values[i] has no use.
C1_AllUsesRedirected_Original ==
    (IsRAUW /\ Len(AsSequence(arg.values)) = Len(AsSequence(arg.replacements)))
        => /\ result = "ok"
           /\ Redirected(AsSequence(arg.values), AsSequence(arg.replacements))

\* C1, amended: the same, for values and replacements where no replacement is
\* itself one of the values and a value listed twice is paired with the same
\* replacement each time.
C1_AllUsesRedirected ==
    (/\ IsRAUW
     /\ Len(AsSequence(arg.values)) = Len(AsSequence(arg.replacements))
     /\ NoAliasing(AsSequence(arg.values), AsSequence(arg.replacements)))
        => /\ result = "ok"
           /\ Redirected(AsSequence(arg.values), AsSequence(arg.replacements))

\* Two values replaced in one call, the first with two consumers' slots.
C1_Witness ==
    /\ IsRAUW /\ result = "ok"
    /\ arg.values.kind = "seq" /\ Len(arg.values.s) = MaxLen
    /\ arg.values.s[1] # arg.values.s[2]
    /\ NoAliasing(AsSequence(arg.values), AsSequence(arg.replacements))
    /\ Cardinality(pre.uses[arg.values.s[1]]) >= 2
    /\ pre.uses[arg.values.s[2]] # {}
    /\ uses[arg.replacements.s[1]] # pre.uses[arg.replacements.s[1]]

UsesConsistent == \A v \in Values : uses[v] = UsesOf(inputs, v)

\* C2: after any sequence of calls, the use set of every value is exactly the
\* set of (node, slot) pairs whose input is that value, and no call changes
\* the number of use edges.
C2_UseSetsMatchInputs ==
    /\ []UsesConsistent
    /\ [][TotalUses(uses') = TotalUses(uses)]_vars

\* The uses of a moved to d, D spliced in and A removed.
C2_Witness ==
    /\ uses["a"] = {} /\ Cardinality(uses["d"]) >= 3
    /\ "D" \in Range(nodes) /\ "A" \notin Range(nodes)

NoInputIn(vals) ==
    \A n \in Range(nodes) : \A i \in DOMAIN inputs[n] : inputs[n][i] \notin vals

\* C3 as stated: after a successful replace_nodes_and_values no node of the
\* container, the new nodes included, has an input among old_values.
C3_NoInputReadsOldValue_Original ==
    (IsRNV /\ result = "ok") => NoInputIn(Range(arg.old_values))

\* C3, amended: the same, when no new_values[j] is an old_values[i] with i <= j.
C3_NoInputReadsOldValue ==
    (/\ IsRNV /\ result = "ok"
     /\ \A i, j \in DOMAIN arg.old_values :
            i <= j => arg.new_values[j] # arg.old_values[i])
        => NoInputIn(Range(arg.old_values))

\* A replaced by D: a had consumers, the new node D among them.
C3_Witness ==
    /\ IsRNV /\ result = "ok"
    /\ arg.old_values = <<"a">> /\ arg.new_values = <<"d">>
    /\ arg.old_nodes = <<"A">> /\ arg.new_nodes = <<"D">>
    /\ pre.inputs["D"][1] = "a" /\ Cardinality(pre.uses["a"]) >= 3
    /\ "D" \in Range(nodes)

\* C4: when step 5 finds an old node with a used output, the call fails and
\* the container keeps every node it had (after step 4's insertion); and no
\* node of the container reads an output of a node the call removed.
C4_UnsafeRemovalRejected ==
    IsRNV =>
        /\ (/\ result \notin {"length_mismatch", "bad_insertion_point"}
            /\ \E i \in DOMAIN arg.old_nodes : HasUsedOutput(State, arg.old_nodes[i]))
               => /\ result = "unsafe_remove"
                  /\ SelectSeq(nodes, LAMBDA n : n \notin Range(arg.new_nodes)) = pre.nodes
        /\ \A n \in Range(pre.nodes) \ Range(nodes) : NoInputIn(Range(NodeOutputs[n]))

\* B, removable, is listed before A, whose output a is not replaced and still read.
C4_Witness ==
    /\ IsRNV /\ result = "unsafe_remove"
    /\ arg.old_nodes = <<"B", "A">>
    /\ uses["b"] = {} /\ uses["a"] # {}
    /\ "a" \notin Range(arg.old_values)
    /\ arg.new_nodes = <<"D">> /\ "D" \in Range(nodes)

\* C5: replace_nodes_and_values with old_values and new_values of different
\* lengths fails, with no input slot repointed, no output replaced and no node
\* inserted or removed.
C5_LengthMismatchFailsFirst ==
    (IsRNV /\ Len(arg.old_values) # Len(arg.new_values))
        => /\ result = "length_mismatch"
           /\ inputs = pre.inputs /\ uses = pre.uses
           /\ outputs = pre.outputs /\ nodes = pre.nodes

\* Two old values, both read and one an output, for one new value and a new node.
C5_Witness ==
    /\ IsRNV /\ result = "length_mismatch"
    /\ Len(arg.old_values) = 2 /\ Len(arg.new_values) = 1
    /\ \A i \in 1..2 : pre.uses[arg.old_values[i]] # {}
    /\ arg.old_values[1] \in Range(pre.outputs)
    /\ arg.new_nodes = <<"D">> /\ arg.insertion_point = "B"

\* The largest index at which v occurs in s.
LastIndex(s, v) == CHOOSE j \in DOMAIN s : s[j] = v /\ \A k \in DOMAIN s : s[k] = v => k <= j

\* C6: after a successful replace_nodes_and_values the output list has its
\* length, an output that was old_values[i] is new_values[j] for the largest j
\* with old_values[j] that output, and any other output is unchanged.
C6_OutputsLastPairWins ==
    (IsRNV /\ result = "ok")
        => /\ Len(outputs) = Len(pre.outputs)
           /\ \A p \in DOMAIN pre.outputs :
                IF pre.outputs[p] \in Range(arg.old_values)
                THEN outputs[p] = arg.new_values[LastIndex(arg.old_values, pre.outputs[p])]
                ELSE outputs[p] = pre.outputs[p]

\* The output a listed twice in old_values, with two different new values.
C6_Witness ==
    /\ IsRNV /\ result = "ok"
    /\ arg.old_values = <<"a", "a">>
    /\ arg.new_values[1] # arg.new_values[2]
    /\ pre.outputs = <<"a", "c">> /\ outputs[1] = arg.new_values[2]

(***************************************************************************)
(* create_value_mapping.  A Value is [id, name]; the name may be None or   *)
(* "".  A graph is [initializers, inputs, nodes]; initializers is the      *)
(* name -> Value mapping as its items in order, every key the non-empty    *)
(* name of its Value; a node is [inputs, outputs, graphs], graphs the      *)
(* node lists of the subgraphs its attributes hold.                        *)
(***************************************************************************)
NoValue == [id |-> 0, name |-> None]

Truthy(name) == name # None /\ name # ""

RECURSIVE Flatten(_)
Flatten(ss) == IF Len(ss) = 0 THEN <<>> ELSE Head(ss) \o Flatten(Tail(ss))

\* traversal.RecursiveGraphIterator(graph): each node, then the nodes of its
\* subgraphs, recursively.
RECURSIVE RecursiveGraphIterator(_)
RecursiveGraphIterator(ns) ==
    IF Len(ns) = 0 THEN <<>>
    ELSE <<[inputs |-> Head(ns).inputs, outputs |-> Head(ns).outputs]>>
            \o Flatten([k \in DOMAIN Head(ns).graphs |->
                            RecursiveGraphIterator(Head(ns).graphs[k])])
            \o RecursiveGraphIterator(Tail(ns))

\* values[name] = value with no test for a name already present.
AddNamed_overwrite(d, value) ==
    IF ~Truthy(value.name) THEN d
    ELSE [k \in DOMAIN d \cup {value.name} |-> IF k = value.name THEN value ELSE d[k]]

\* if not value.name: continue; if value.name in values: continue; values[value.name] = value
AddNamed(d, value) ==
    IF ~Truthy(value.name) THEN d
    ELSE IF value.name \in DOMAIN d THEN d
    ELSE [k \in DOMAIN d \cup {value.name} |-> IF k = value.name THEN value ELSE d[k]]

\* for value in node.inputs: if not value: continue; ...
AddInput(d, value) == IF value = NoValue THEN d ELSE AddNamed(d, value)

RECURSIVE AddAll(_, _, _)
AddAll(d, vs, input) ==
    IF Len(vs) = 0 THEN d
    ELSE AddAll(IF input THEN AddInput(d, Head(vs)) ELSE AddNamed(d, Head(vs)),
                Tail(vs), input)

RECURSIVE AddNodes(_, _)
AddNodes(d, ns) ==
    IF Len(ns) = 0 THEN d
    ELSE AddNodes(AddAll(AddAll(d, Head(ns).inputs, TRUE), Head(ns).outputs, FALSE),
                  Tail(ns))

\* values.update(graph.initializers)
UpdateFrom(d, items) ==
    [k \in DOMAIN d \cup {items[i][1] : i \in DOMAIN items} |->
        IF \E i \in DOMAIN items : items[i][1] = k
        THEN items[CHOOSE i \in DOMAIN items : items[i][1] = k][2]
        ELSE d[k]]

create_value_mapping(graph) ==
    AddNodes(AddAll(UpdateFrom(<<>>, graph.initializers), graph.inputs, FALSE),
             RecursiveGraphIterator(graph.nodes))

Names == {None, "", "p", "q"}

\* The graph of the projection's calls, for a naming nm of its six Values:
\* an initializer (when named), two inputs, and the nodes N1, N2 in N1's
\* subgraph, N3.
MapGraph(nm) ==
    LET v == [i \in DOMAIN nm |-> [id |-> i, name |-> nm[i]]]
        n2 == [inputs |-> <<v[4], v[3]>>, outputs |-> <<v[5]>>, graphs |-> <<>>]
        n1 == [inputs |-> <<v[2], NoValue, v[1]>>, outputs |-> <<v[4]>>,
               graphs |-> <<(<<n2>>)>>]
        n3 == [inputs |-> <<v[5]>>, outputs |-> <<v[6]>>, graphs |-> <<>>]
    IN [initializers |-> IF Truthy(nm[1]) THEN <<(<<nm[1], v[1]>>)>> ELSE <<>>,
        inputs |-> <<v[2], v[3]>>,
        nodes |-> <<n1, n3>>]

MapNamings == [{1, 2, 3, 4, 5, 6} -> Names]

\* The rewiring state of the specifications that do not use it.
NoGraph ==
    /\ inputs = <<>>
    /\ uses = <<>>
    /\ nodes = <<>>
    /\ outputs = <<>>
    /\ meta = <<>>
    /\ pre = NoCall

PendingResult == [kind |-> "pending"]

InitMap ==
    /\ NoGraph
    /\ arg \in {[op |-> "create_value_mapping", graph |-> MapGraph(nm)] : nm \in MapNamings}
    /\ result = PendingResult

CreateValueMapping ==
    /\ arg.op = "create_value_mapping"
    /\ result = PendingResult
    /\ result' = [kind |-> "mapping", map |-> create_value_mapping(arg.graph)]
    /\ UNCHANGED <<inputs, uses, nodes, outputs, meta, arg, pre>>

SpecMap == InitMap /\ [][CreateValueMapping]_vars

\* The Values of the graph in the order the claim gives: initializers, graph
\* inputs, then each traversed node's inputs and outputs.
Encountered(graph) ==
    [i \in DOMAIN graph.initializers |-> graph.initializers[i][2]]
        \o graph.inputs
        \o LET ns == RecursiveGraphIterator(graph.nodes)
           IN Flatten([k \in DOMAIN ns |->
                        SelectSeq(ns[k].inputs, LAMBDA x : x # NoValue) \o ns[k].outputs])

NoTensor == [name |-> None, dtype |-> None]

NoNode == [op_type |-> None]

NoShape == [known |-> FALSE]

NoType == [kind |-> None]

Shape(dims) == [known |-> TRUE, dims |-> dims]

TensorType(dtype) == [kind |-> "TensorType", dtype |-> dtype]

\* np.array(attr_value.value, dtype=...): a scalar gives rank 0, a list rank 1.
Array(v, dtype, name) ==
    [name |-> name, dtype |-> dtype,
     shape |-> IF v.scalar THEN Shape(<<>>) ELSE Shape(<<Len(v.items)>>),
     data |-> v.items]

Tensor(t) == [kind |-> "tensor", tensor |-> t]

Absent == [kind |-> "none"]

Raised == [kind |-> "error", error |-> "ValueError"]

\* The branch on attr_name; the tensor not yet renamed.
Decode(attr_name, attr_value, ir_value_name) ==
    IF attr_name \in {"value_float", "value_floats"}
    THEN Tensor(Array(attr_value.value, "FLOAT", ir_value_name))
    ELSE IF attr_name \in {"value_int", "value_ints"}
    THEN Tensor(Array(attr_value.value, "INT64", ir_value_name))
    ELSE IF attr_name \in {"value_string", "value_strings"}
    THEN Tensor(Array(attr_value.value, "STRING", ir_value_name))
    ELSE IF attr_name = "value"
    THEN Tensor(attr_value.value.tensor)
    ELSE Raised

\* tensor.name = value.name
Renamed(r, name) ==
    IF r.kind = "tensor" THEN Tensor([r.tensor EXCEPT !.name = name]) ELSE r

\* The lookup with a reference attribute tested before the arity of the node.
DecodeNode_ref_first(value) ==
    LET node == value.producer
    IN IF node = NoNode THEN Absent
       ELSE IF node.op_type # "Constant" \/ node.domain # "" THEN Absent
       ELSE IF Len(node.attributes) >= 1 /\ node.attributes[1][2].is_ref THEN Absent
       ELSE IF Len(node.outputs) # 1 THEN Raised
       ELSE IF Len(node.attributes) # 1 THEN Raised
       ELSE Decode(node.attributes[1][1], node.attributes[1][2], node.outputs[1])

\* node = value.producer() ... down to the branch on attr_name.
DecodeNode(value) ==
    LET node == value.producer
    IN IF node = NoNode THEN Absent
       ELSE IF node.op_type # "Constant" \/ node.domain # "" THEN Absent
       ELSE IF Len(node.outputs) # 1 THEN Raised
       ELSE IF Len(node.attributes) # 1 THEN Raised
       ELSE LET attr_name == node.attributes[1][1]
                attr_value == node.attributes[1][2]
            IN IF attr_value.is_ref THEN Absent
               ELSE Decode(attr_name, attr_value, node.outputs[1])

\* The else branch with its last line dropped: the decoded tensor keeps its name.
FromNode_keep_name(value) == DecodeNode(value)

\* The else branch of get_const_tensor: the tensor of the producing node, renamed.
FromNode(value) == Renamed(DecodeNode(value), value.name)

\* if tensor is not None and propagate_shape_type: the Value with the tensor's
\* shape and type, and the warnings logged.
Propagate(value, tensor) ==
    [value |-> [value EXCEPT !.shape = tensor.shape, !.type = TensorType(tensor.dtype)],
     warnings |-> {w \in {"shape", "type"} :
                    \/ w = "shape" /\ value.shape # NoShape /\ value.shape # tensor.shape
                    \/ w = "type" /\ value.type # NoType
                                  /\ value.type # TensorType(tensor.dtype)}]

get_const_tensor(value, propagate_shape_type) ==
    LET r == IF value.const_value # NoTensor THEN Tensor(value.const_value)
             ELSE FromNode(value)
    IN IF r.kind = "tensor" /\ propagate_shape_type
       THEN [kind |-> r.kind, tensor |-> r.tensor,
             value |-> Propagate(value, r.tensor).value,
             warnings |-> Propagate(value, r.tensor).warnings]
       ELSE [kind |-> r.kind, tensor |-> IF r.kind = "tensor" THEN r.tensor ELSE NoTensor,
             value |-> value, warnings |-> {}]

(***************************************************************************)
(* The Values get_const_tensor is called on.                               *)
(***************************************************************************)
AttrNames == {"value_float", "value_floats", "value_int", "value_ints",
              "value_string", "value_strings", "value", "sparse_value"}

\* The payload an attribute of that name holds.
Payload(attr_name, tensor_name) ==
    IF attr_name = "value"
    THEN [tensor |-> [name |-> tensor_name, dtype |-> "INT64",
                      shape |-> Shape(<<2>>), data |-> <<1, 2>>]]
    ELSE IF attr_name \in {"value_float", "value_int", "value_string"}
    THEN [scalar |-> TRUE, items |-> <<1>>]
    ELSE [scalar |-> FALSE, items |-> <<1, 2>>]

AttrItems ==
    {<<n, [is_ref |-> ref, value |-> Payload(n, tn)]>> :
        n \in AttrNames, ref \in BOOLEAN, tn \in {None, "t"}}

\* No attribute, one attribute, or one attribute and a second one.
AttrMappings ==
    {<<>>} \cup {<<a>> : a \in AttrItems}
           \cup {<<a, <<"extra", [is_ref |-> FALSE, value |-> Payload("extra", None)]>> >> :
                    a \in AttrItems}

Producers(name) ==
    {NoNode} \cup
    {[op_type |-> op, domain |-> dom, outputs |-> outs, attributes |-> attrs] :
        op \in {"Constant", "Add"}, dom \in {"", "custom"},
        outs \in {<<name>>, <<name, "other">>}, attrs \in AttrMappings}

EmbeddedTensors ==
    {NoTensor} \cup
    {[name |-> tn, dtype |-> "FLOAT", shape |-> Shape(<<3>>), data |-> <<1, 2, 3>>] :
        tn \in {None, "v"}}

ConstValuesNamed(name) ==
    {[name |-> name, const_value |-> c, shape |-> sh, type |-> ty, producer |-> n] :
        c \in EmbeddedTensors,
        sh \in {NoShape, Shape(<<3>>)}, ty \in {NoType, TensorType("FLOAT")},
        n \in Producers(name)}

ConstValues == ConstValuesNamed(None) \cup ConstValuesNamed("v")

InitConst ==
    /\ NoGraph
    /\ arg \in {[op |-> "get_const_tensor", value |-> v, propagate_shape_type |-> p] :
                    v \in ConstValues, p \in BOOLEAN}
    /\ result = PendingResult

GetConstTensor ==
    /\ arg.op = "get_const_tensor"
    /\ result = PendingResult
    /\ result' = get_const_tensor(arg.value, arg.propagate_shape_type)
    /\ UNCHANGED <<inputs, uses, nodes, outputs, meta, arg, pre>>

SpecConst == InitConst /\ [][GetConstTensor]_vars

IsConstantNode(n) == n # NoNode /\ n.op_type = "Constant" /\ n.domain = ""

WrongArity(n) == Len(n.outputs) # 1 \/ Len(n.attributes) # 1

DecodedNames == {"value_float", "value_floats", "value_int", "value_ints",
                 "value_string", "value_strings", "value"}

\* C8: the outcome of get_const_tensor is that of the first rule that applies:
\* payload -> the payload; no producer -> absence; not a Constant of the ""
\* domain -> absence; wrong output or attribute count -> error; reference
\* attribute -> absence; a decoded attribute name -> a tensor; else error.
C8_FirstApplicableRule ==
    (arg.op = "get_const_tensor" /\ result # PendingResult) =>
        LET v == arg.value
            n == v.producer
        IN /\ v.const_value # NoTensor
                => result.kind = "tensor" /\ [result.tensor EXCEPT !.name = None]
                                              = [v.const_value EXCEPT !.name = None]
           /\ (v.const_value = NoTensor /\ ~IsConstantNode(n)) => result.kind = "none"
           /\ (v.const_value = NoTensor /\ IsConstantNode(n) /\ WrongArity(n))
                => result.kind = "error"
           /\ (v.const_value = NoTensor /\ IsConstantNode(n) /\ ~WrongArity(n))
                => IF n.attributes[1][2].is_ref THEN result.kind = "none"
                   ELSE IF n.attributes[1][1] \in DecodedNames THEN result.kind = "tensor"
                   ELSE result.kind = "error"
           /\ result.kind = "error" => (IsConstantNode(n) /\ v.const_value = NoTensor)
           /\ result.kind = "none" => ~(IsConstantNode(n) /\ WrongArity(n))

\* A Constant node with two attributes, the first a reference: an error.
C8_Witness ==
    /\ arg.op = "get_const_tensor" /\ result.kind = "error"
    /\ Len(arg.value.producer.attributes) = 2
    /\ arg.value.producer.attributes[1][2].is_ref

\* C9 as stated: a tensor get_const_tensor returns, embedded payload or
\* decoded, has the name of value.
C9_TensorNamedAfterValue_Original ==
    (arg.op = "get_const_tensor" /\ result.kind = "tensor")
        => result.tensor.name = arg.value.name

\* C9, amended: a tensor get_const_tensor decodes from a Constant node's
\* attribute has the name of value; an embedded payload is returned with the
\* name it has.
C9_TensorNamedAfterValue ==
    (arg.op = "get_const_tensor" /\ result.kind = "tensor")
        => IF arg.value.const_value = NoTensor
           THEN result.tensor.name = arg.value.name
           ELSE result.tensor.name = arg.value.const_value.name

\* The tensor of a "value" attribute, named otherwise than the Value.
C9_Witness ==
    /\ arg.op = "get_const_tensor" /\ result.kind = "tensor"
    /\ arg.value.const_value = NoTensor
    /\ arg.value.producer.attributes[1][1] = "value"
    /\ arg.value.producer.attributes[1][2].value.tensor.name = "t"
    /\ arg.value.name = "v"
    /\ result.tensor.name = "v"

(***************************************************************************)
(* The attribute binder.  A Python object is a record with its class in    *)
(* py: int, float, str ([py, v]); list ([py, items]); Tensor, TensorProto  *)
(* and the TensorProtoTensor serde.deserialize_tensor makes of it ([py,    *)
(* data]); Graph, a Sequence of its nodes, and GraphProto ([py, name,      *)
(* nodes]); TensorType; Attr ([py, name, type, value]); NoneType; object.  *)
(***************************************************************************)
PyNone == [py |-> "NoneType"]

NoTag == "None"

Attr(name, type, value) == [py |-> "Attr", name |-> name, type |-> type, value |-> value]

IsSequence(x) == x.py \in {"list", "str", "Graph"}

\* What iterating a Sequence yields.
Elements(x) ==
    IF x.py = "list" THEN x.items
    ELSE IF x.py = "Graph" THEN x.nodes
    ELSE <<x>>

AllOf(x, classes) == \A i \in DOMAIN Elements(x) : Elements(x)[i].py \in classes

TensorClasses == {"Tensor", "TensorProtoTensor", "TensorProto"}

GraphClasses == {"Graph", "GraphProto"}

TypeClasses == {"TensorType", "SequenceType", "OptionalType"}

\* _infer_attribute_type: the tag, or "TypeError" for the raise of line 99.
infer_attribute_type(attr) ==
    IF attr.py = "int" THEN "INT"
    ELSE IF attr.py = "float" THEN "FLOAT"
    ELSE IF attr.py = "str" THEN "STRING"
    ELSE IF attr.py = "Attr" THEN attr.type
    ELSE IF IsSequence(attr) /\ AllOf(attr, {"int"}) THEN "INTS"
    ELSE IF IsSequence(attr) /\ AllOf(attr, {"float"}) THEN "FLOATS"
    ELSE IF IsSequence(attr) /\ AllOf(attr, {"str"}) THEN "STRINGS"
    ELSE IF attr.py \in TensorClasses THEN "TENSOR"
    ELSE IF IsSequence(attr) /\ AllOf(attr, TensorClasses) THEN "TENSORS"
    ELSE IF attr.py \in GraphClasses THEN "GRAPH"
    ELSE IF IsSequence(attr) /\ AllOf(attr, GraphClasses) THEN "GRAPHS"
    ELSE IF attr.py \in TypeClasses THEN "TYPE_PROTO"
    ELSE IF IsSequence(attr) /\ AllOf(attr, TypeClasses) THEN "TYPE_PROTOS"
    ELSE "TypeError"

\* serde.deserialize_tensor
deserialize_tensor(t) == [py |-> "TensorProtoTensor", data |-> t.data]

\* serde.deserialize_graph
deserialize_graph(g) == [py |-> "Graph", name |-> g.name, nodes |-> g.nodes]

Bound(a) == [kind |-> "attr", attr |-> a]

Error(e) == [kind |-> "error", error |-> e]

\* for t in attr: a TensorProto is appended as AttrTensor(name, deserialize_tensor(t))
ConvertTensors(name, attr) ==
    [i \in DOMAIN Elements(attr) |->
        IF Elements(attr)[i].py = "TensorProto"
        THEN Attr(name, "TENSOR", deserialize_tensor(Elements(attr)[i]))
        ELSE Elements(attr)[i]]

\* for graph in attr: a GraphProto is appended as deserialize_graph(graph)
ConvertGraphs(attr) ==
    [i \in DOMAIN Elements(attr) |->
        IF Elements(attr)[i].py = "GraphProto"
        THEN deserialize_graph(Elements(attr)[i])
        ELSE Elements(attr)[i]]

Iterable(x) == x.py \in {"list", "str", "Graph"}

\* The stored value of AttrInt64s(name, attr) and the like: the object given.
Stored(attr) == IF attr.py = "list" THEN attr.items ELSE attr

\* Lines 141-185: the tag inferred when none is given, then the branch on it.
ConvertTagged(name, attr, given) ==
    LET attr_type == IF given = NoTag THEN infer_attribute_type(attr) ELSE given
    IN IF attr_type = "TypeError" THEN Error("TypeError")
       ELSE IF attr_type \in {"INT", "FLOAT", "STRING", "INTS", "FLOATS", "STRINGS"}
       THEN Bound(Attr(name, attr_type, Stored(attr)))
       ELSE IF attr_type = "TENSOR" /\ attr.py \in {"Tensor", "TensorProtoTensor"}
       THEN Bound(Attr(name, "TENSOR", attr))
       ELSE IF attr_type = "TENSOR" /\ attr.py = "TensorProto"
       THEN Bound(Attr(name, "TENSOR", deserialize_tensor(attr)))
       ELSE IF attr_type = "TENSORS"
       THEN IF Iterable(attr) THEN Bound(Attr(name, "TENSORS", ConvertTensors(name, attr)))
            ELSE Error("TypeError")
       ELSE IF attr_type = "GRAPH"
       THEN Bound(Attr(name, "GRAPH",
                       IF attr.py = "GraphProto" THEN deserialize_graph(attr) ELSE attr))
       ELSE IF attr_type = "GRAPHS"
       THEN IF Iterable(attr) THEN Bound(Attr(name, "GRAPHS", ConvertGraphs(attr)))
            ELSE Error("TypeError")
       ELSE IF attr_type \in {"TYPE_PROTO", "TYPE_PROTOS"}
       THEN Bound(Attr(name, attr_type, Stored(attr)))
       ELSE Error("TypeError")

convert_attribute(name, attr, attr_type) ==
    IF attr = PyNone
    THEN IF attr_type = NoTag THEN Error("ValueError")
         ELSE Bound(Attr(name, attr_type, PyNone))
    ELSE IF attr.py = "Attr"
    THEN IF attr.name # name THEN Error("ValueError")
         ELSE IF attr_type # NoTag /\ attr.type # attr_type THEN Error("ValueError")
         ELSE Bound(attr)
    ELSE ConvertTagged(name, attr, attr_type)

(***************************************************************************)
(* The objects convert_attribute is called on.                             *)
(***************************************************************************)
PyInt == [py |-> "int", v |-> "1"]

PyFloat == [py |-> "float", v |-> "1.5"]

PyStr == [py |-> "str", v |-> "s"]

PyTensor == [py |-> "Tensor", data |-> <<1, 2>>]

PyTensorProto == [py |-> "TensorProto", data |-> <<3>>]

PyNode == [py |-> "Node"]

PyGraph == [py |-> "Graph", name |-> "g", nodes |-> <<PyNode>>]

PyEmptyGraph == [py |-> "Graph", name |-> "graph0", nodes |-> <<>>]

PyGraphProto == [py |-> "GraphProto", name |-> "gp", nodes |-> <<PyNode>>]

PyTensorType == [py |-> "TensorType", dtype |-> "FLOAT"]

PyObject == [py |-> "object"]

ListElements == {PyInt, PyFloat, PyStr, PyTensor, PyTensorProto, PyGraph,
                 PyGraphProto, PyTensorType}

PyObjects ==
    ListElements
        \cup {PyEmptyGraph, PyObject, PyNone}
        \cup {Attr(n, "INT", PyInt) : n \in {"a", "b"}}
        \cup {[py |-> "list", items |-> s] : s \in SeqsUpTo(ListElements, MaxLen)}

AttributeTypes == {NoTag, "INT", "FLOATS", "TENSOR", "TENSORS", "GRAPH", "GRAPHS",
                   "TYPE_PROTO", "UNDEFINED"}

InitAttr ==
    /\ NoGraph
    /\ arg \in {[op |-> "convert_attribute", name |-> "a", attr |-> x, attr_type |-> t] :
                    x \in PyObjects, t \in AttributeTypes}
    /\ result = PendingResult

ConvertAttribute ==
    /\ arg.op = "convert_attribute"
    /\ result = PendingResult
    /\ result' = convert_attribute(arg.name, arg.attr, arg.attr_type)
    /\ UNCHANGED <<inputs, uses, nodes, outputs, meta, arg, pre>>

SpecAttr == InitAttr /\ [][ConvertAttribute]_vars

\* An externally-encoded tensor or graph decoded, anything else as it is.
Native(x) ==
    IF x.py = "TensorProto" THEN deserialize_tensor(x)
    ELSE IF x.py = "GraphProto" THEN deserialize_graph(x)
    ELSE x

Homogeneous(items) ==
    \E classes \in {{"int"}, {"float"}, {"str"}, TensorClasses, GraphClasses, TypeClasses} :
        \A i \in DOMAIN items : items[i].py \in classes

\* A scalar, a tensor-like, graph-like or type-descriptor object, or a list of one kind of those.
SupportedInput(x) ==
    \/ x.py \in {"int", "float", "str"} \cup TensorClasses \cup GraphClasses \cup TypeClasses
    \/ x.py = "list" /\ Homogeneous(x.items)

\* C10: for a supported input and no explicit tag, convert_attribute yields an
\* Attribute whose tag is the inferred one and whose value is the input with
\* every externally-encoded tensor or graph decoded, in input order.
C10_BindingRoundTrips ==
    (/\ arg.op = "convert_attribute" /\ result # PendingResult
     /\ arg.attr_type = NoTag /\ SupportedInput(arg.attr))
        => /\ result.kind = "attr"
           /\ result.attr.type = infer_attribute_type(arg.attr)
           /\ result.attr.value =
                IF arg.attr.py = "list"
                THEN [i \in DOMAIN arg.attr.items |-> Native(arg.attr.items[i])]
                ELSE Native(arg.attr)

\* A Sequence with no element: an empty list, or a Graph with no node.
EmptySequence(x) == x.py \in {"list", "Graph"} /\ Len(Elements(x)) = 0

\* C11: _infer_attribute_type of an empty sequence fails with the
\* unsupported-type error and returns no tag, so convert_attribute of an empty
\* sequence with no explicit tag fails and produces no Attribute.
C11_EmptySequenceRejected ==
    (/\ arg.op = "convert_attribute" /\ result # PendingResult
     /\ arg.attr_type = NoTag /\ EmptySequence(arg.attr))
        => /\ infer_attribute_type(arg.attr) = "TypeError"
           /\ result.kind = "error"
           /\ result.error = "TypeError"

====
